---- MODULE Spec2Model ----
(***************************************************************************)
(* Streaming response handling of the ragnostic-admin client:              *)
(*   queryDocument   (api/documents.ts)  - the document-query stream,      *)
(*   sendChatMessage (api/chat.ts)       - the chat-message stream.        *)
(*                                                                         *)
(* Text is a sequence of lexemes.  A lexeme is a TLA+ string standing for  *)
(* the characters between its quotes ("Source 1 (" is ten characters that  *)
(* always travel together); the lexemes are cut where the regular          *)
(* expressions and string operations of the code look.  The wire is a      *)
(* sequence of bytes: an ASCII lexeme is carried as itself, the non-ASCII  *)
(* character U+00E9 as its two UTF-8 bytes 0xC3 0xA9, so a transport read  *)
(* may end between the two.                                                *)
(***************************************************************************)
EXTENDS Naturals, Sequences, FiniteSets

VARIABLES
    kind,               \* "query": queryDocument runs; "chat": sendChatMessage runs
    sent,               \* what the server put on the wire, as structured payloads
    wire,               \* bytes of the response body not yet returned by reader.read()
    pc,                 \* "idle" | "fetching" | "reading" | "resolved" | "rejected"
    decoderPending,     \* TextDecoder: bytes of an incomplete UTF-8 sequence
    buffer,             \* queryDocument: buffer
    inSourcesSection,   \* queryDocument: inSourcesSection
    sources,            \* queryDocument: sources
    currentSourceText,  \* queryDocument: currentSourceText
    responseMessage,    \* every string decoder.decode() returned, concatenated
    calls,              \* callback invocations, in order
    abandoned,          \* the caller has given the stream up
    lateCall,           \* a callback ran after the caller gave the stream up
    carried,            \* the latest read began between the bytes of one character
    response,           \* queryDocument: response of fetch, its ok and its body
    thrown,             \* queryDocument: message of the error it rejected with
    localStorage,       \* the browser's localStorage: authToken, userData
    user,               \* AuthProvider: user
    isLoading,          \* AuthProvider: isLoading
    authStep,           \* AuthProvider: "start" | "ready" | "login"
    tokenFound,         \* what initAuth found stored, while nothing has acted since
    now,                \* the clock, in seconds: Date.now() is now * 1000
    selectedDocumentId, \* DocumentsPage: selectedDocumentId, 0 for null
    loading,            \* DocumentsPage: loading, a fetchDocuments is under way
    rag,                \* the RAGQuery of DocumentsPage: its state while mounted
    queries,            \* the queryDocument invocations of RAGQuery, in order
    chatPage,           \* ChatPage: its state and its requests under way
    viewerSources,      \* PDFViewer: the sources prop
    currentPage,        \* PDFViewer: currentPage
    viewerStep          \* PDFViewer: "pending" | "shown" | "navigated"

fetchVars == <<response, thrown>>
authVars == <<localStorage, user, isLoading, authStep, tokenFound, now>>
pageVars == <<selectedDocumentId, loading, rag, queries, chatPage>>
viewerVars == <<viewerSources, currentPage, viewerStep>>

vars == <<kind, sent, wire, pc, decoderPending, buffer, inSourcesSection,
          sources, currentSourceText, responseMessage, calls, abandoned,
          lateCall, carried, fetchVars, authVars, pageVars, viewerVars>>

-----------------------------------------------------------------------------
(* Bounds *)

MaxLines == 4       \* payloads of a document-query stream
MaxChat == 2        \* payloads of a chat stream
MaxAbandoned == 2   \* payloads of a stream whose caller may give it up
MaxDeep == 5        \* payloads of a stream of the narrower, longer family
MaxFailure == 3     \* payloads of a stream whose fetch or read may fail
MaxMalformed == 3   \* lines of a stream that carries malformed lines
MaxExp == 2         \* latest exp claim of a token, in seconds
MaxClock == 3       \* latest time the clock reaches, in seconds
MaxPage == 2        \* highest page number of a citation
MaxCitations == 3   \* citations handed to the viewer
MaxMounts == 2      \* times DocumentsPage mounts a RAGQuery
MaxQueries == 2     \* submits that reach queryDocument
MaxAnswer == 1      \* chunks of an answer that RAGQuery shows
MaxSection == 3     \* payloads that follow the head of a sources-section stream
MaxTail == 2        \* payloads ahead of a last line without newline
MaxDeltas == 3      \* payloads of a chat stream read on its own
MaxLoads == 2       \* getChatMessages loads of ChatPage under way at a time
MaxSends == 2       \* messages sent from ChatPage
MaxContent == 2     \* deltas of a chat stream that reach ChatPage

-----------------------------------------------------------------------------
(* Sequences *)

RECURSIVE Flatten(_)
Flatten(ss) == IF ss = <<>> THEN <<>> ELSE Head(ss) \o Flatten(Tail(ss))

\* String.prototype.includes: needle occurs in s as a contiguous run
Includes(s, needle) ==
    \E i \in 1..(Len(s) + 1) :
        /\ i + Len(needle) - 1 <= Len(s)
        /\ SubSeq(s, i, i + Len(needle) - 1) = needle

SeqsUpTo(S, n) == UNION {[1..k -> S] : k \in 0..n}

-----------------------------------------------------------------------------
(* UTF-8 *)

EAcute == "U+00E9"
Replacement == "U+FFFD"
LeadBytes == {"0xC3"}
ContinuationBytes == {"0xA9"}

EncodeChar(c) == IF c = EAcute THEN <<"0xC3", "0xA9">> ELSE <<c>>

RECURSIVE Utf8Encode(_)
Utf8Encode(s) == IF s = <<>> THEN <<>> ELSE EncodeChar(Head(s)) \o Utf8Encode(Tail(s))

\* The decoder's loop over the bytes of one decode() call.
RECURSIVE DecodeBytes(_, _, _)
DecodeBytes(pending, bytes, out) ==
    IF bytes = <<>> THEN [out |-> out, pending |-> pending]
    ELSE LET b == Head(bytes) IN
         IF pending = <<>>
         THEN IF b \in LeadBytes
              THEN DecodeBytes(<<b>>, Tail(bytes), out)
              ELSE IF b \in ContinuationBytes
                   THEN DecodeBytes(<<>>, Tail(bytes), Append(out, Replacement))
                   ELSE DecodeBytes(<<>>, Tail(bytes), Append(out, b))
         ELSE IF b \in ContinuationBytes
              THEN DecodeBytes(<<>>, Tail(bytes), Append(out, EAcute))
              ELSE DecodeBytes(<<>>, bytes, Append(out, Replacement))

\* TextDecoder.decode(value, {stream}): without stream an incomplete
\* sequence at the end of value is flushed as U+FFFD.
TextDecoderDecode(pending, value, stream) ==
    LET r == DecodeBytes(pending, value, <<>>) IN
    IF stream \/ r.pending = <<>> THEN r
    ELSE [out |-> Append(r.out, Replacement), pending |-> <<>>]

\* (mutant) decode(value) without { stream: true }
DecodeFlushing(pending, value) == TextDecoderDecode(<<>>, value, FALSE)

\* decoder.decode(value, { stream: true })
DecodeChunk(pending, value) == TextDecoderDecode(pending, value, TRUE)

-----------------------------------------------------------------------------
(* The wire format read by queryDocument *)

Prefix == "data: "
Newline == "\n"
ChunkOpen == "{\"chunk\":\""
ChunkClose == "\"}"
DoneJson == "{\"done\":true}"
EmptyJson == "{}"
EscapedNewline == "\\n"
JsonSyntax == {ChunkOpen, ChunkClose, DoneJson, EmptyJson}

\* a JSON string literal carries a newline as the escape \n
JsonEscape(s) == [i \in 1..Len(s) |-> IF s[i] = Newline THEN EscapedNewline ELSE s[i]]
JsonUnescape(s) == [i \in 1..Len(s) |-> IF s[i] = EscapedNewline THEN Newline ELSE s[i]]

\* JSON.parse(jsonStr), then the fields the code reads: ok = FALSE stands
\* for the SyntaxError it throws.
JSONparse(jsonStr) ==
    LET n == Len(jsonStr)
        none == [ok |-> FALSE, done |-> FALSE, hasChunk |-> FALSE, chunk |-> <<>>]
    IN  IF jsonStr = <<DoneJson>> THEN [none EXCEPT !.ok = TRUE, !.done = TRUE]
        ELSE IF jsonStr = <<EmptyJson>> THEN [none EXCEPT !.ok = TRUE]
        ELSE IF /\ n >= 2
                /\ jsonStr[1] = ChunkOpen
                /\ jsonStr[n] = ChunkClose
                /\ \A i \in 2..(n - 1) : jsonStr[i] \notin JsonSyntax \cup {Newline}
        THEN [none EXCEPT !.ok = TRUE, !.hasChunk = TRUE,
                          !.chunk = JsonUnescape(SubSeq(jsonStr, 2, n - 1))]
        ELSE none

\* line.startsWith("data: ")
StartsWithData(line) == Len(line) >= 1 /\ line[1] = Prefix

\* line.substring(6)
StripPrefix(line) == Tail(line)

\* buffer.split("\n"): the pieces between the newlines, at least one piece
RECURSIVE SplitLines(_, _, _)
SplitLines(s, piece, acc) ==
    IF s = <<>> THEN Append(acc, piece)
    ELSE IF Head(s) = Newline
         THEN SplitLines(Tail(s), <<>>, Append(acc, piece))
         ELSE SplitLines(Tail(s), Append(piece, Head(s)), acc)

Split(s) == SplitLines(s, <<>>, <<>>)

-----------------------------------------------------------------------------
(* The sources section *)

Sentinel == <<"--- Sources", " ---">>
SourceOpen == {"Source 1 (", "Source 2 ("}
PageRefs == {"Page 2", "Page 7"}
LabelClose == "):"
Whitespace == {" ", Newline}

\* parseInt of the digits of a "Page <digits>" lexeme
PageDigits(ref) == CASE ref = "Page 2" -> 2 [] ref = "Page 7" -> 7

\* chunk.includes("--- Sources ---")
HasSentinel(chunk) == Includes(chunk, Sentinel)

\* chunk.match(/^Source \d+ \(Page \d+\):/)
MatchesMarker(chunk) ==
    /\ Len(chunk) >= 3
    /\ chunk[1] \in SourceOpen
    /\ chunk[2] \in PageRefs
    /\ chunk[3] = LabelClose

\* (mutant) the last "Page <digits>" of the text instead of the first
ExtractLastPage(text) ==
    LET hits == {i \in 1..Len(text) : text[i] \in PageRefs} IN
    IF hits = {} THEN 0
    ELSE PageDigits(text[CHOOSE i \in hits : \A j \in hits : i >= j])

\* (mutant) no default for a text without a page: -1 stands for no number
ExtractPageNoDefault(text) ==
    LET hits == {i \in 1..Len(text) : text[i] \in PageRefs} IN
    IF hits = {} THEN 0 - 1
    ELSE PageDigits(text[CHOOSE i \in hits : \A j \in hits : i <= j])

\* currentSourceText.match(/Page (\d+)/): the first match; parseInt, or 0
ExtractPage(text) ==
    LET hits == {i \in 1..Len(text) : text[i] \in PageRefs} IN
    IF hits = {} THEN 0
    ELSE PageDigits(text[CHOOSE i \in hits : \A j \in hits : i <= j])

\* .replace(/^Source \d+ \(Page \d+\):/, "")
StripLabel(text) == IF MatchesMarker(text) THEN SubSeq(text, 4, Len(text)) ELSE text

\* .trim()
RECURSIVE TrimStart(_)
TrimStart(s) ==
    IF s # <<>> /\ Head(s) \in Whitespace THEN TrimStart(Tail(s)) ELSE s

RECURSIVE TrimEnd(_)
TrimEnd(s) ==
    IF s # <<>> /\ s[Len(s)] \in Whitespace THEN TrimEnd(SubSeq(s, 1, Len(s) - 1)) ELSE s

Trim(s) == TrimEnd(TrimStart(s))

\* the record pushed for a finished source
SourceRecord(text) == [text |-> Trim(StripLabel(text)), page |-> ExtractPage(text)]

-----------------------------------------------------------------------------
(* queryDocument: one line of the for loop *)

OnStreamChunk(chunk) == [cb |-> "onStreamChunk", text |-> chunk, sources |-> <<>>]
OnSourcesReceived(list) == [cb |-> "onSourcesReceived", text |-> <<>>, sources |-> list]
OnMessageChunk(chunk) == [cb |-> "onMessageChunk", text |-> chunk, sources |-> <<>>]

\* (mutant) the callback without the sources.length > 0 test
DeliverUnguarded(st) == [st EXCEPT !.calls = Append(@, OnSourcesReceived(st.sources))]

\* if (sources.length > 0 && onSourcesReceived) onSourcesReceived(sources)
DeliverSources(st) ==
    IF Len(st.sources) > 0
    THEN [st EXCEPT !.calls = Append(@, OnSourcesReceived(st.sources))]
    ELSE st

\* (mutant) the list handed over each time a record is pushed
StartSourceNotifying(st, chunk) ==
    IF st.currentSourceText # <<>>
    THEN LET list == Append(st.sources, SourceRecord(st.currentSourceText)) IN
         [st EXCEPT !.sources = list,
                    !.currentSourceText = chunk,
                    !.calls = Append(@, OnSourcesReceived(list))]
    ELSE [st EXCEPT !.currentSourceText = chunk]

\* the chunk is the label of a new source: push the one collected, start anew
StartSource(st, chunk) ==
    [st EXCEPT !.sources = IF st.currentSourceText # <<>>
                           THEN Append(@, SourceRecord(st.currentSourceText))
                           ELSE @,
               !.currentSourceText = chunk]

\* (mutant) the marker test ahead of the inSourcesSection test
ProcessChunkMarkerFirst(st, chunk) ==
    IF HasSentinel(chunk) THEN [st EXCEPT !.inSourcesSection = TRUE]
    ELSE IF MatchesMarker(chunk) THEN StartSource(st, chunk)
    ELSE IF st.inSourcesSection
         THEN [st EXCEPT !.currentSourceText = @ \o chunk]
         ELSE [st EXCEPT !.calls = Append(@, OnStreamChunk(chunk))]

\* (mutant) the sentinel looked for only after the chunk was dispatched
ProcessChunkSentinelLate(st, chunk) ==
    LET after == IF st.inSourcesSection
                 THEN IF MatchesMarker(chunk)
                      THEN StartSource(st, chunk)
                      ELSE [st EXCEPT !.currentSourceText = @ \o chunk]
                 ELSE [st EXCEPT !.calls = Append(@, OnStreamChunk(chunk))]
    IN  IF HasSentinel(chunk) THEN [after EXCEPT !.inSourcesSection = TRUE] ELSE after

\* (mutant) each sentinel flips the flag
ProcessChunkToggling(st, chunk) ==
    IF HasSentinel(chunk) THEN [st EXCEPT !.inSourcesSection = ~@]
    ELSE IF st.inSourcesSection
         THEN IF MatchesMarker(chunk)
              THEN StartSource(st, chunk)
              ELSE [st EXCEPT !.currentSourceText = @ \o chunk]
         ELSE [st EXCEPT !.calls = Append(@, OnStreamChunk(chunk))]

\* (mutant) a label anywhere in the chunk starts a source
ProcessChunkLabelAnywhere(st, chunk) ==
    IF HasSentinel(chunk) THEN [st EXCEPT !.inSourcesSection = TRUE]
    ELSE IF st.inSourcesSection
         THEN IF \E i \in 1..Len(chunk) : MatchesMarker(SubSeq(chunk, i, Len(chunk)))
              THEN StartSource(st, chunk)
              ELSE [st EXCEPT !.currentSourceText = @ \o chunk]
         ELSE [st EXCEPT !.calls = Append(@, OnStreamChunk(chunk))]

\* (mutant) the text around the sentinel kept: what is ahead of it forwarded
\* in the answer phase, what follows it collected in the sources section
ProcessChunkKeepingRest(st, chunk) ==
    IF HasSentinel(chunk)
    THEN LET at == CHOOSE i \in 1..Len(chunk) :
                       SubSeq(chunk, i, i + Len(Sentinel) - 1) = Sentinel
             ahead == SubSeq(chunk, 1, at - 1)
             behind == SubSeq(chunk, at + Len(Sentinel), Len(chunk))
         IN  IF st.inSourcesSection
             THEN [st EXCEPT !.currentSourceText = @ \o behind]
             ELSE [st EXCEPT !.inSourcesSection = TRUE,
                             !.calls = IF ahead = <<>> THEN @
                                       ELSE Append(@, OnStreamChunk(ahead))]
    ELSE IF st.inSourcesSection
         THEN IF MatchesMarker(chunk)
              THEN StartSource(st, chunk)
              ELSE [st EXCEPT !.currentSourceText = @ \o chunk]
         ELSE [st EXCEPT !.calls = Append(@, OnStreamChunk(chunk))]

\* a chunk payload
ProcessChunk(st, chunk) ==
    IF HasSentinel(chunk) THEN [st EXCEPT !.inSourcesSection = TRUE]
    ELSE IF st.inSourcesSection
         THEN IF MatchesMarker(chunk)
              THEN StartSource(st, chunk)
              ELSE [st EXCEPT !.currentSourceText = @ \o chunk]
         ELSE [st EXCEPT !.calls = Append(@, OnStreamChunk(chunk))]

\* (mutant) a line without the prefix parsed as it stands
ProcessLineLenient(st, line) ==
    LET data == JSONparse(IF StartsWithData(line) THEN StripPrefix(line) ELSE line) IN
    IF ~data.ok THEN st
    ELSE IF data.done THEN DeliverSources(st)
    ELSE IF data.hasChunk THEN ProcessChunk(st, data.chunk)
    ELSE st

\* the body of "for (const line of lines)"; a SyntaxError is caught and logged
ProcessLine(st, line) ==
    IF ~StartsWithData(line) THEN st
    ELSE LET data == JSONparse(StripPrefix(line)) IN
         IF ~data.ok THEN st
         ELSE IF data.done THEN DeliverSources(st)
         ELSE IF data.hasChunk THEN ProcessChunk(st, data.chunk)
         ELSE st

RECURSIVE ProcessLines(_, _)
ProcessLines(st, lines) ==
    IF lines = <<>> THEN st
    ELSE ProcessLines(ProcessLine(st, Head(lines)), Tail(lines))

\* (mutant) the last piece processed with the others although it is kept
AllPieces(pieces) == pieces

\* (mutant) buffer = "" after the loop
KeptNothing(pieces) == <<>>

\* lines.pop() || "": the lines to process now and the piece kept in buffer
CompleteLines(pieces) == SubSeq(pieces, 1, Len(pieces) - 1)
KeptPiece(pieces) == pieces[Len(pieces)]

\* (mutant) what is left in buffer interpreted as a last line
AtStreamEndFlushing(st, rest) == DeliverSources(ProcessLine(st, rest))

\* if (done) { ...onSourcesReceived(sources)...; break; }: buffer is not read
AtStreamEnd(st, rest) == DeliverSources(st)

ParserState ==
    [inSourcesSection |-> inSourcesSection, sources |-> sources,
     currentSourceText |-> currentSourceText, calls |-> calls]

-----------------------------------------------------------------------------
(* The streams *)

AnswerText == <<EAcute>>
SourceOne == <<"Source 1 (", "Page 2", "):", " ", "Foo">>
SourceTwo == <<"Source 2 (", "Page 2", "):", "Baz.">>
PageMention == <<"Page 7">>

ChunkTexts == {AnswerText, Sentinel, SourceOne, SourceTwo, PageMention}

Chunk(t) == [type |-> "chunk", text |-> t]
Done == [type |-> "done", text |-> <<>>]

QueryPayloads == {Chunk(t) : t \in ChunkTexts} \cup {Done}
AbandonedPayloads == {Chunk(AnswerText), Chunk(Sentinel), Chunk(SourceOne), Done}
DeepPayloads == {Chunk(AnswerText), Chunk(Sentinel), Chunk(SourceOne), Done}

\* lines that are no payload of the protocol: a chunk object without the
\* prefix, an object cut short, an object with neither field, a blank line
Bare == [type |-> "bare", text |-> AnswerText]
Broken == [type |-> "broken", text |-> AnswerText]
Other == [type |-> "other", text |-> <<>>]
Blank == [type |-> "blank", text |-> <<>>]

MalformedPayloads == DeepPayloads \cup {Bare, Broken, Other, Blank}

\* chunks of the sources section: a label that is not at the start of its
\* chunk, and a sentinel with text on both sides
MidMarker == <<"Baz.", "Source 2 (", "Page 7", "):">>
Wrapped == <<"Bar">> \o Sentinel \o <<"Qux">>

SectionPayloads ==
    {Chunk(AnswerText), Chunk(SourceOne), Chunk(MidMarker), Chunk(Wrapped), Done}

\* a data line that the server leaves without its newline: the body ends there
TailChunk(t) == [type |-> "tailchunk", text |-> t]
TailDone == [type |-> "taildone", text |-> <<>>]

TailPayloads == {TailChunk(AnswerText), TailChunk(Sentinel), TailChunk(SourceOne), TailDone}

Unterminated(p) == p.type \in {"tailchunk", "taildone"}

\* one protocol line as the server writes it
LineText(p) ==
    IF p.type \in {"done", "taildone"} THEN <<Prefix, DoneJson>>
    ELSE IF p.type = "bare" THEN <<ChunkOpen>> \o JsonEscape(p.text) \o <<ChunkClose>>
    ELSE IF p.type = "broken" THEN <<Prefix, ChunkOpen>> \o JsonEscape(p.text)
    ELSE IF p.type = "other" THEN <<Prefix, EmptyJson>>
    ELSE IF p.type = "blank" THEN <<>>
    ELSE <<Prefix, ChunkOpen>> \o JsonEscape(p.text) \o <<ChunkClose>>

QueryBody(payloads) ==
    Flatten([i \in 1..Len(payloads) |->
                IF Unterminated(payloads[i]) THEN LineText(payloads[i])
                ELSE Append(LineText(payloads[i]), Newline)])

RoleOpen == "{\"delta\":{\"role\":\"assistant\""
ContentOpen == "{\"delta\":{\"content\":\""
ContentClose == "\"}}"
ObjectClose == "}}"

ChatPayloads ==
    {[type |-> "role", text |-> <<>>], [type |-> "content", text |-> AnswerText]}

ChatText(p) ==
    IF p.type = "role" THEN <<RoleOpen, ObjectClose>>
    ELSE <<ContentOpen>> \o JsonEscape(p.text) \o <<ContentClose>>

ChatBody(payloads) == Flatten([i \in 1..Len(payloads) |-> ChatText(payloads[i])])

-----------------------------------------------------------------------------
(* Actions *)

\* response.ok and response.body !== null
Responses == [ok : BOOLEAN, body : BOOLEAN]

\* no error thrown
NoError == "none"

\* the fetch has answered 200 with a body
FetchDone ==
    /\ response = [ok |-> TRUE, body |-> TRUE]
    /\ thrown = NoError

\* localStorage.getItem("authToken"): nothing stored; a string that is no
\* JWT; a JWT whose payload has the claim exp, 0 standing for none
NoToken == [stored |-> FALSE, decodable |-> FALSE, exp |-> 0]
Garbled == [stored |-> TRUE, decodable |-> FALSE, exp |-> 0]
Jwt(exp) == [stored |-> TRUE, decodable |-> TRUE, exp |-> exp]
Tokens == {NoToken, Garbled} \cup {Jwt(e) : e \in 0..MaxExp}

\* localStorage.getItem("userData"): nothing; text that is no JSON; JSON of
\* a value that is no object; JSON of the user object
UserData == {"missing", "invalid", "primitive", "valid"}

Cleared == [authToken |-> NoToken, userData |-> "missing"]
Unchecked == [token |-> NoToken, at |-> 0]

\* the application before AuthProvider's effect, nothing stored
AuthIdle ==
    /\ localStorage = Cleared
    /\ user = "null"
    /\ isLoading = TRUE
    /\ authStep = "start"
    /\ tokenFound = Unchecked
    /\ now = 1

\* RAGQuery's useState initial values; instance counts the mounts.  A
\* document's file info and path are written as the document's id, null as
\* 0; pdfFor is the documentId that a handleOpenPdf under way has passed to
\* getDocumentFileInfo; answerOf and sourcesOf name the query whose
\* callbacks wrote answer and sources.
FreshRag(instance) ==
    [mounted |-> FALSE, instance |-> instance, loading |-> FALSE,
     isStreaming |-> FALSE, answer |-> <<>>, sources |-> <<>>,
     hasSources |-> FALSE, hasResult |-> FALSE,
     isPdfOpen |-> FALSE, pdfInfo |-> 0, pdfFilePath |-> 0,
     loadingPdf |-> FALSE, pdfFor |-> 0, answerOf |-> 0, sourcesOf |-> 0]

\* ids of the user's chat sessions
SessionIds == {1, 2}

\* no handleSendMessage under way
NoSend == [state |-> "none", sessionId |-> 0, messageStarted |-> FALSE, deltas |-> 0]

\* ChatPage as mounted: its useState initial values, fetchSessions under
\* way.  listed: sessions holds the user's sessions; loads counts, per session, the getChatMessages calls of the
\* fetchMessages effect that have not answered; stored counts the exchanges
\* that the server has added to a session; sends counts the messages sent.
ChatIdle ==
    [loading |-> TRUE, listed |-> FALSE, selectedSessionId |-> 0, messages |-> <<>>,
     isSending |-> FALSE, send |-> NoSend,
     loads |-> [s \in SessionIds |-> 0], stored |-> [s \in SessionIds |-> 0],
     sends |-> 0]

\* DocumentsPage as mounted: its first fetchDocuments under way, no RAGQuery;
\* ChatPage as mounted
PageIdle ==
    /\ selectedDocumentId = 0
    /\ loading = TRUE
    /\ rag = FreshRag(0)
    /\ queries = <<>>
    /\ chatPage = ChatIdle

\* PDFViewer mounted with no sources, its effect not yet run
ViewerIdle ==
    /\ viewerSources = <<>>
    /\ currentPage = 1
    /\ viewerStep = "pending"

InitWith(payloads, n) ==
    /\ kind \in {"query", "chat"}
    /\ sent \in IF kind = "query" THEN SeqsUpTo(payloads, n)
                                  ELSE SeqsUpTo(ChatPayloads, MaxChat)
    /\ wire = Utf8Encode(IF kind = "query" THEN QueryBody(sent) ELSE ChatBody(sent))
    /\ pc = "reading"
    /\ FetchDone
    /\ AuthIdle
    /\ PageIdle
    /\ ViewerIdle
    /\ decoderPending = <<>>
    /\ buffer = <<>>
    /\ inSourcesSection = FALSE
    /\ sources = <<>>
    /\ currentSourceText = <<>>
    /\ responseMessage = <<>>
    /\ calls = <<>>
    /\ abandoned = FALSE
    /\ lateCall = FALSE
    /\ carried = FALSE

Init == InitWith(QueryPayloads, MaxLines)

\* reader.read() returns the next n bytes of the body
TakeRead(n) ==
    /\ pc = "reading"
    /\ n \in 1..Len(wire)
    /\ wire' = SubSeq(wire, n + 1, Len(wire))
    /\ carried' = (decoderPending # <<>>)
    /\ UNCHANGED <<fetchVars, authVars, pageVars, viewerVars>>

\* queryDocument: one turn of the while loop with done = false
QueryRead(n) ==
    /\ kind = "query"
    /\ TakeRead(n)
    /\ \E dec \in {DecodeChunk(decoderPending, SubSeq(wire, 1, n))} :
       \E pieces \in {Split(buffer \o dec.out)} :
       \E st \in {ProcessLines(ParserState, CompleteLines(pieces))} :
           /\ decoderPending' = dec.pending
           /\ responseMessage' = responseMessage \o dec.out
           /\ buffer' = KeptPiece(pieces)
           /\ inSourcesSection' = st.inSourcesSection
           /\ sources' = st.sources
           /\ currentSourceText' = st.currentSourceText
           /\ calls' = st.calls
           /\ lateCall' = (lateCall \/ (abandoned /\ st.calls # calls))
    /\ UNCHANGED <<kind, sent, pc, abandoned>>

\* queryDocument: reader.read() reports done; the function resolves
QueryEnd ==
    /\ kind = "query"
    /\ pc = "reading"
    /\ wire = <<>>
    /\ LET st == AtStreamEnd(ParserState, buffer) IN
           /\ calls' = st.calls
           /\ lateCall' = (lateCall \/ (abandoned /\ st.calls # calls))
    /\ pc' = "resolved"
    /\ UNCHANGED <<kind, sent, wire, decoderPending, buffer, inSourcesSection,
                   sources, currentSourceText, responseMessage, abandoned, carried>>
    /\ UNCHANGED <<fetchVars, authVars, pageVars, viewerVars>>

\* sendChatMessage: one turn of the while loop with done = false
ChatRead(n) ==
    /\ kind = "chat"
    /\ TakeRead(n)
    /\ \E dec \in {DecodeChunk(decoderPending, SubSeq(wire, 1, n))} :
           /\ decoderPending' = dec.pending
           /\ responseMessage' = responseMessage \o dec.out
           /\ calls' = Append(calls, OnMessageChunk(dec.out))
    /\ lateCall' = (lateCall \/ abandoned)
    /\ UNCHANGED <<kind, sent, pc, buffer, inSourcesSection, sources,
                   currentSourceText, abandoned>>

\* sendChatMessage: reader.read() reports done; the function returns null
ChatEnd ==
    /\ kind = "chat"
    /\ pc = "reading"
    /\ wire = <<>>
    /\ pc' = "resolved"
    /\ UNCHANGED <<kind, sent, wire, decoderPending, buffer, inSourcesSection,
                   sources, currentSourceText, responseMessage, calls, abandoned,
                   lateCall, carried>>
    /\ UNCHANGED <<fetchVars, authVars, pageVars, viewerVars>>

\* the caller gives the stream up while it is being read: ChatPage calls
\* abortControllerRef.current.abort() for a new message, or the RAGQuery
\* that awaits queryDocument is unmounted or given another document
Abandon ==
    /\ pc = "reading"
    /\ ~abandoned
    /\ abandoned' = TRUE
    /\ UNCHANGED <<kind, sent, wire, pc, decoderPending, buffer, inSourcesSection,
                   sources, currentSourceText, responseMessage, calls, lateCall,
                   carried>>
    /\ UNCHANGED <<fetchVars, authVars, pageVars, viewerVars>>

Next ==
    \/ \E n \in 1..Len(wire) : QueryRead(n)
    \/ QueryEnd
    \/ \E n \in 1..Len(wire) : ChatRead(n)
    \/ ChatEnd

Spec == Init /\ [][Next]_vars

\* fewer kinds of payload, longer streams
InitDeep == InitWith(DeepPayloads, MaxDeep)

SpecDeep == InitDeep /\ [][Next]_vars

\* short streams, with a caller that may give the stream up
InitAbandon == InitWith(AbandonedPayloads, MaxAbandoned)

NextAbandon ==
    \/ \E n \in 1..Len(wire) : QueryRead(n)
    \/ QueryEnd
    \/ \E n \in 1..Len(wire) : ChatRead(n)
    \/ ChatEnd
    \/ Abandon

SpecAbandon == InitAbandon /\ [][NextAbandon]_vars

\* streams with lines that are no payload
InitMalformed == InitWith(MalformedPayloads, MaxMalformed)

SpecMalformed == InitMalformed /\ [][Next]_vars

\* streams of the sources section: the sentinel, or none, and then chunks
InitSection ==
    /\ kind = "query"
    /\ \E head \in {<<>>, <<Chunk(Sentinel)>>} :
       \E tail \in SeqsUpTo(SectionPayloads, MaxSection) :
           sent = head \o tail
    /\ wire = Utf8Encode(QueryBody(sent))
    /\ pc = "reading"
    /\ FetchDone
    /\ AuthIdle
    /\ PageIdle
    /\ ViewerIdle
    /\ decoderPending = <<>>
    /\ buffer = <<>>
    /\ inSourcesSection = FALSE
    /\ sources = <<>>
    /\ currentSourceText = <<>>
    /\ responseMessage = <<>>
    /\ calls = <<>>
    /\ abandoned = FALSE
    /\ lateCall = FALSE
    /\ carried = FALSE

NextSection ==
    \/ \E n \in 1..Len(wire) : QueryRead(n)
    \/ QueryEnd

SpecSection == InitSection /\ [][NextSection]_vars

\* streams whose last data line has no newline
InitTail ==
    /\ kind = "query"
    /\ \E body \in SeqsUpTo(DeepPayloads, MaxTail) :
       \E last \in TailPayloads :
           sent = Append(body, last)
    /\ wire = Utf8Encode(QueryBody(sent))
    /\ pc = "reading"
    /\ FetchDone
    /\ AuthIdle
    /\ PageIdle
    /\ ViewerIdle
    /\ decoderPending = <<>>
    /\ buffer = <<>>
    /\ inSourcesSection = FALSE
    /\ sources = <<>>
    /\ currentSourceText = <<>>
    /\ responseMessage = <<>>
    /\ calls = <<>>
    /\ abandoned = FALSE
    /\ lateCall = FALSE
    /\ carried = FALSE

NextTail ==
    \/ \E n \in 1..Len(wire) : QueryRead(n)
    \/ QueryEnd

SpecTail == InitTail /\ [][NextTail]_vars

-----------------------------------------------------------------------------
(* ChatPage: the callback that handleSendMessage hands to sendChatMessage *)

ChatSyntax == {RoleOpen, ContentOpen, ContentClose, ObjectClose}

RoleDelta == [type |-> "role", text |-> <<>>]
ContentDelta == [type |-> "content", text |-> AnswerText]

NoDelta == [role |-> FALSE, hasContent |-> FALSE, content |-> <<>>]

\* (mutant) the first object of the chunk parsed, whatever follows it
ChatParseFirstObject(chunk) ==
    IF Len(chunk) >= 2 /\ SubSeq(chunk, 1, 2) = <<RoleOpen, ObjectClose>>
    THEN [NoDelta EXCEPT !.role = TRUE]
    ELSE IF \E n \in 2..Len(chunk) :
                /\ chunk[1] = ContentOpen
                /\ chunk[n] = ContentClose
                /\ \A i \in 2..(n - 1) : chunk[i] \notin ChatSyntax \cup {Newline}
         THEN LET n == CHOOSE k \in 2..Len(chunk) : chunk[k] = ContentClose IN
              [NoDelta EXCEPT !.hasContent = TRUE,
                              !.content = JsonUnescape(SubSeq(chunk, 2, n - 1))]
         ELSE NoDelta

\* try { data = JSON.parse(chunk) } catch { data = {} }, then the fields of
\* data.delta that the callback reads
ChatParse(chunk) ==
    LET n == Len(chunk) IN
    IF chunk = <<RoleOpen, ObjectClose>> THEN [NoDelta EXCEPT !.role = TRUE]
    ELSE IF /\ n >= 2
            /\ chunk[1] = ContentOpen
            /\ chunk[n] = ContentClose
            /\ \A i \in 2..(n - 1) : chunk[i] \notin ChatSyntax \cup {Newline}
         THEN [NoDelta EXCEPT !.hasContent = TRUE,
                              !.content = JsonUnescape(SubSeq(chunk, 2, n - 1))]
         ELSE NoDelta

\* a message of the list; origin tells where it was made: "server" by
\* getChatMessages, "user", "stream" and "error" by handleSendMessage
Message(sessionId, role, origin, content) ==
    [sessionId |-> sessionId, role |-> role, origin |-> origin, content |-> content]

\* the body of the callback for one delta; st holds messageStarted of the
\* send and the messages state
OnDelta(st, data, sessionId) ==
    IF data.role
    THEN [messageStarted |-> TRUE,
          messages |-> Append(st.messages, Message(sessionId, "assistant", "stream", <<>>))]
    ELSE IF data.hasContent /\ st.messageStarted
         THEN LET lastIndex == Len(st.messages) IN
              IF lastIndex >= 1 /\ st.messages[lastIndex].role = "assistant"
              THEN [st EXCEPT !.messages[lastIndex].content = @ \o data.content]
              ELSE st
         ELSE st

\* the messages of a session as getChatMessages returns them
ServerMessages(sessionId) == <<Message(sessionId, "assistant", "server", <<"Foo">>)>>

\* the callback applied to the chunks of a send into a loaded session
RECURSIVE OnChunks(_, _, _)
OnChunks(st, chunks, sessionId) ==
    IF chunks = <<>> THEN st
    ELSE OnChunks(OnDelta(st, ChatParse(Head(chunks).text), sessionId),
                  Tail(chunks), sessionId)

\* what ChatPage shows of a send into session 1 after the calls made so far
Displayed ==
    OnChunks([messageStarted |-> FALSE,
              messages |-> Append(ServerMessages(1), Message(1, "user", "user", <<"Bar">>))],
             calls, 1).messages

\* sendChatMessage alone, with longer streams
InitChatStream ==
    /\ kind = "chat"
    /\ sent \in SeqsUpTo(ChatPayloads, MaxDeltas)
    /\ wire = Utf8Encode(ChatBody(sent))
    /\ pc = "reading"
    /\ FetchDone
    /\ AuthIdle
    /\ PageIdle
    /\ ViewerIdle
    /\ decoderPending = <<>>
    /\ buffer = <<>>
    /\ inSourcesSection = FALSE
    /\ sources = <<>>
    /\ currentSourceText = <<>>
    /\ responseMessage = <<>>
    /\ calls = <<>>
    /\ abandoned = FALSE
    /\ lateCall = FALSE
    /\ carried = FALSE

NextChatStream ==
    \/ \E n \in 1..Len(wire) : ChatRead(n)
    \/ ChatEnd

SpecChatStream == InitChatStream /\ [][NextChatStream]_vars

-----------------------------------------------------------------------------
(* queryDocument from its fetch on *)

HttpError == "HTTP error! Status"
BodyNull == "Response body is null"
ReadError == "read failed"

\* (mutant) the response.ok test left out
CheckBodyOnly(resp) == IF ~resp.body THEN BodyNull ELSE NoError

\* if (!response.ok) throw ...; if (!response.body) throw ...
CheckResponse(resp) ==
    IF ~resp.ok THEN HttpError
    ELSE IF ~resp.body THEN BodyNull
    ELSE NoError

InitFailure ==
    /\ kind = "query"
    /\ sent \in SeqsUpTo(DeepPayloads, MaxFailure)
    /\ wire = Utf8Encode(QueryBody(sent))
    /\ pc = "fetching"
    /\ response \in Responses
    /\ thrown = NoError
    /\ AuthIdle
    /\ PageIdle
    /\ ViewerIdle
    /\ decoderPending = <<>>
    /\ buffer = <<>>
    /\ inSourcesSection = FALSE
    /\ sources = <<>>
    /\ currentSourceText = <<>>
    /\ responseMessage = <<>>
    /\ calls = <<>>
    /\ abandoned = FALSE
    /\ lateCall = FALSE
    /\ carried = FALSE

\* await fetch(...) answers; the status and body tests; the outer catch
\* rethrows what they throw
FetchSettles ==
    /\ pc = "fetching"
    /\ \E err \in {CheckResponse(response)} :
           /\ thrown' = err
           /\ pc' = IF err = NoError THEN "reading" ELSE "rejected"
    /\ UNCHANGED <<kind, sent, wire, decoderPending, buffer, inSourcesSection,
                   sources, currentSourceText, responseMessage, calls, abandoned,
                   lateCall, carried, response>>
    /\ UNCHANGED <<authVars, pageVars, viewerVars>>

\* await reader.read() rejects; the outer catch rethrows
ReadFails ==
    /\ kind = "query"
    /\ pc = "reading"
    /\ pc' = "rejected"
    /\ thrown' = ReadError
    /\ UNCHANGED <<kind, sent, wire, decoderPending, buffer, inSourcesSection,
                   sources, currentSourceText, responseMessage, calls, abandoned,
                   lateCall, carried, response>>
    /\ UNCHANGED <<authVars, pageVars, viewerVars>>

NextFailure ==
    \/ FetchSettles
    \/ \E n \in 1..Len(wire) : QueryRead(n)
    \/ QueryEnd
    \/ ReadFails

SpecFailure == InitFailure /\ [][NextFailure]_vars

-----------------------------------------------------------------------------
(* AuthProvider and ProtectedRoute *)

MsPerSecond == 1000

\* (mutant) a token accepted at the very second it expires
IsTokenValidInclusive(token, time) ==
    IF ~token.stored THEN FALSE
    ELSE IF ~token.decodable THEN FALSE
    ELSE IF token.exp = 0 THEN FALSE
    ELSE time * MsPerSecond <= token.exp * MsPerSecond

\* isTokenValid(): no token, a payload that cannot be decoded, no exp, or
\* Date.now() < payload.exp * 1000
IsTokenValid(token, time) ==
    IF ~token.stored THEN FALSE
    ELSE IF ~token.decodable THEN FALSE
    ELSE IF token.exp = 0 THEN FALSE
    ELSE time * MsPerSecond < token.exp * MsPerSecond

\* initAuth between try and finally: the localStorage and the user it leaves
InitAuthOutcome(store, time) ==
    IF IsTokenValid(store.authToken, time)
    THEN IF store.userData = "valid" THEN [store |-> store, user |-> "user"]
         ELSE IF store.userData = "primitive" THEN [store |-> Cleared, user |-> "null"]
         ELSE [store |-> store, user |-> "null"]
    ELSE [store |-> Cleared, user |-> "null"]

\* ProtectedRoute: what it returns
ProtectedRoute ==
    IF isLoading THEN "spinner"
    ELSE IF user = "null" THEN "Navigate to /login"
    ELSE "children"

InitAuth ==
    /\ localStorage \in [authToken : Tokens, userData : UserData]
    /\ user = "null"
    /\ isLoading = TRUE
    /\ authStep = "start"
    /\ tokenFound = Unchecked
    /\ now = 1
    /\ kind = "query"
    /\ sent = <<>>
    /\ wire = <<>>
    /\ pc = "idle"
    /\ FetchDone
    /\ PageIdle
    /\ ViewerIdle
    /\ decoderPending = <<>>
    /\ buffer = <<>>
    /\ inSourcesSection = FALSE
    /\ sources = <<>>
    /\ currentSourceText = <<>>
    /\ responseMessage = <<>>
    /\ calls = <<>>
    /\ abandoned = FALSE
    /\ lateCall = FALSE
    /\ carried = FALSE

streamVars == <<kind, sent, wire, pc, decoderPending, buffer, inSourcesSection,
                sources, currentSourceText, responseMessage, calls, abandoned,
                lateCall, carried>>

\* the effect of AuthProvider: initAuth()
InitAuthEffect ==
    /\ authStep = "start"
    /\ \E out \in {InitAuthOutcome(localStorage, now)} :
           /\ localStorage' = out.store
           /\ user' = out.user
    /\ isLoading' = FALSE
    /\ authStep' = "ready"
    /\ tokenFound' = [token |-> localStorage.authToken, at |-> now]
    /\ UNCHANGED <<now, streamVars, fetchVars, pageVars, viewerVars>>

\* login up to await apiLogin(...)
LoginStart ==
    /\ authStep = "ready"
    /\ isLoading' = TRUE
    /\ authStep' = "login"
    /\ tokenFound' = Unchecked
    /\ UNCHANGED <<localStorage, user, now, streamVars, fetchVars, pageVars, viewerVars>>

\* apiLogin answers with a token: it is stored, the user is set
LoginSucceeds(exp) ==
    /\ authStep = "login"
    /\ localStorage' = [authToken |-> Jwt(exp), userData |-> "valid"]
    /\ user' = "user"
    /\ isLoading' = FALSE
    /\ authStep' = "ready"
    /\ UNCHANGED <<tokenFound, now, streamVars, fetchVars, pageVars, viewerVars>>

\* apiLogin rejects: finally setIsLoading(false)
LoginFails ==
    /\ authStep = "login"
    /\ isLoading' = FALSE
    /\ authStep' = "ready"
    /\ UNCHANGED <<localStorage, user, tokenFound, now, streamVars, fetchVars,
                   pageVars, viewerVars>>

\* logout: apiLogout(); setUser(null)
Logout ==
    /\ authStep = "ready"
    /\ localStorage' = Cleared
    /\ user' = "null"
    /\ tokenFound' = Unchecked
    /\ UNCHANGED <<isLoading, authStep, now, streamVars, fetchVars, pageVars,
                   viewerVars>>

\* the page is loaded anew: the state of AuthProvider starts over
Reload ==
    /\ authStep = "ready"
    /\ user' = "null"
    /\ isLoading' = TRUE
    /\ authStep' = "start"
    /\ tokenFound' = Unchecked
    /\ UNCHANGED <<localStorage, now, streamVars, fetchVars, pageVars, viewerVars>>

\* a second passes
Tick ==
    /\ now < MaxClock
    /\ now' = now + 1
    /\ UNCHANGED <<localStorage, user, isLoading, authStep, tokenFound, streamVars,
                   fetchVars, pageVars, viewerVars>>

NextAuth ==
    \/ InitAuthEffect
    \/ LoginStart
    \/ \E exp \in 1..MaxExp : LoginSucceeds(exp)
    \/ LoginFails
    \/ Logout
    \/ Reload
    \/ Tick

SpecAuth == InitAuth /\ [][NextAuth]_vars

-----------------------------------------------------------------------------
(* DocumentsPage and its RAGQuery *)

\* ids of the tenant's documents
DocumentIds == {1, 2}

\* the list a queryDocument hands to onSourcesReceived
CitedSources == <<[text |-> <<"Foo">>, page |-> 2]>>

\* a queryDocument invocation awaited by handleSubmit of a RAGQuery mount;
\* continued: handleSubmit has gone on past the await
NewQuery(instance, documentId, query) ==
    [instance |-> instance, documentId |-> documentId, query |-> query,
     state |-> "reading", sourcesSent |-> FALSE, continued |-> FALSE, toasts |-> 0]

\* what the user may have typed into the query field
QueryTexts == {<<>>, <<" ">>, <<" ", "Foo">>}

\* (mutant) the test without trim()
IsBlankUntrimmed(query) == query = <<>>

\* !query.trim()
IsBlank(query) == Trim(query) = <<>>

\* the RAGQuery whose handleSubmit awaits query q is still the mounted one:
\* its state setters have an effect
Own(q) == rag.mounted /\ rag.instance = queries[q].instance

\* (mutant) the catch block without setIsStreaming(false)
AfterAwaitCatchBare(r, outcome) ==
    IF outcome = "rejected" THEN [r EXCEPT !.loading = FALSE]
    ELSE [r EXCEPT !.isStreaming = FALSE, !.loading = FALSE]

\* (mutant) the catch block also takes back the answer shown
AfterAwaitRetracting(r, outcome) ==
    IF outcome = "rejected"
    THEN [r EXCEPT !.isStreaming = FALSE, !.loading = FALSE, !.answer = <<>>]
    ELSE [r EXCEPT !.isStreaming = FALSE, !.loading = FALSE]

\* handleSubmit after await: setIsStreaming(false) in try and in catch,
\* setLoading(false) in finally
AfterAwait(r, outcome) == [r EXCEPT !.isStreaming = FALSE, !.loading = FALSE]

InitPage ==
    /\ PageIdle
    /\ kind = "query"
    /\ sent = <<>>
    /\ wire = <<>>
    /\ pc = "idle"
    /\ FetchDone
    /\ AuthIdle
    /\ ViewerIdle
    /\ decoderPending = <<>>
    /\ buffer = <<>>
    /\ inSourcesSection = FALSE
    /\ sources = <<>>
    /\ currentSourceText = <<>>
    /\ responseMessage = <<>>
    /\ calls = <<>>
    /\ abandoned = FALSE
    /\ lateCall = FALSE
    /\ carried = FALSE

outsidePage == <<streamVars, fetchVars, authVars, viewerVars, chatPage>>

\* fetchDocuments after await getTenantDocuments: the selection is dropped,
\* which unmounts RAGQuery; on an error only finally runs
FetchDocumentsSettles(ok) ==
    /\ loading
    /\ loading' = FALSE
    /\ IF ok
       THEN /\ selectedDocumentId' = 0
            /\ rag' = [rag EXCEPT !.mounted = FALSE]
       ELSE UNCHANGED <<selectedDocumentId, rag>>
    /\ UNCHANGED <<queries, outsidePage>>

\* handleRefresh: refreshKey changes, the effect starts fetchDocuments
HandleRefresh ==
    /\ ~loading
    /\ loading' = TRUE
    /\ UNCHANGED <<selectedDocumentId, rag, queries, outsidePage>>

\* handleDocumentSelect(docId), from a row of the list; with no selection
\* before, RAGQuery is mounted
HandleDocumentSelect(docId) ==
    /\ ~loading
    /\ selectedDocumentId' = docId
    /\ IF selectedDocumentId = 0
       THEN /\ rag.instance < MaxMounts
            /\ rag' = [FreshRag(rag.instance + 1) EXCEPT !.mounted = TRUE]
       ELSE UNCHANGED rag
    /\ UNCHANGED <<loading, queries, outsidePage>>

\* handleSubmit up to await queryDocument(...); the form is disabled while
\* loading
HandleSubmit(query) ==
    /\ rag.mounted
    /\ ~rag.loading
    /\ IF IsBlank(query)
       THEN UNCHANGED <<rag, queries>>
       ELSE /\ Len(queries) < MaxQueries
            /\ rag' = [rag EXCEPT !.loading = TRUE, !.isStreaming = TRUE,
                                  !.answer = <<>>, !.sources = <<>>,
                                  !.hasSources = FALSE, !.hasResult = TRUE,
                                  !.pdfInfo = 0, !.pdfFilePath = 0,
                                  !.answerOf = 0, !.sourcesOf = 0]
            /\ queries' = Append(queries,
                                 NewQuery(rag.instance, selectedDocumentId, query))
    /\ UNCHANGED <<selectedDocumentId, loading, outsidePage>>

\* queryDocument calls onStreamChunk: setAnswer((prev) => prev + chunk)
StreamChunk(q) ==
    /\ queries[q].state = "reading"
    /\ ~queries[q].sourcesSent
    /\ IF Own(q)
       THEN /\ Len(rag.answer) < MaxAnswer
            /\ rag' = [rag EXCEPT !.answer = @ \o AnswerText, !.answerOf = q]
       ELSE UNCHANGED rag
    /\ UNCHANGED <<selectedDocumentId, loading, queries, outsidePage>>

\* queryDocument calls onSourcesReceived: setSources, setHasSources
StreamSources(q) ==
    /\ queries[q].state = "reading"
    /\ ~queries[q].sourcesSent
    /\ queries' = [queries EXCEPT ![q].sourcesSent = TRUE]
    /\ rag' = IF Own(q)
              THEN [rag EXCEPT !.sources = CitedSources,
                               !.hasSources = Len(CitedSources) > 0,
                               !.sourcesOf = q]
              ELSE rag
    /\ UNCHANGED <<selectedDocumentId, loading, outsidePage>>

\* the transport reports the end of the stream: queryDocument resolves
StreamEnds(q) ==
    /\ queries[q].state = "reading"
    /\ queries' = [queries EXCEPT ![q].state = "resolved"]
    /\ UNCHANGED <<selectedDocumentId, loading, rag, outsidePage>>

\* the transport reports an error: queryDocument rejects
StreamFails(q) ==
    /\ queries[q].state = "reading"
    /\ queries' = [queries EXCEPT ![q].state = "rejected"]
    /\ UNCHANGED <<selectedDocumentId, loading, rag, outsidePage>>

\* toast.error("Failed to get answer") calls made for query q
Toasts(q) == queries[q].toasts

\* handleSubmit from await on: try or catch (with its toast), then finally
SubmitContinues(q) ==
    /\ queries[q].state \in {"resolved", "rejected"}
    /\ ~queries[q].continued
    /\ queries' = [queries EXCEPT ![q].continued = TRUE,
                                  ![q].toasts = IF queries[q].state = "rejected"
                                                THEN @ + 1 ELSE @]
    /\ rag' = IF Own(q) THEN AfterAwait(rag, queries[q].state) ELSE rag
    /\ UNCHANGED <<selectedDocumentId, loading, outsidePage>>

NextPage ==
    \/ \E ok \in BOOLEAN : FetchDocumentsSettles(ok)
    \/ HandleRefresh
    \/ \E docId \in DocumentIds : HandleDocumentSelect(docId)
    \/ \E query \in QueryTexts : HandleSubmit(query)
    \/ \E q \in DOMAIN queries : StreamChunk(q)
    \/ \E q \in DOMAIN queries : StreamSources(q)
    \/ \E q \in DOMAIN queries : StreamEnds(q)
    \/ \E q \in DOMAIN queries : StreamFails(q)
    \/ \E q \in DOMAIN queries : SubmitContinues(q)

SpecPage == InitPage /\ [][NextPage]_vars

\* the code after an await runs once the promise has settled
SpecPageFair ==
    /\ InitPage
    /\ [][NextPage]_vars
    /\ \A q \in 1..MaxQueries : WF_vars(q \in DOMAIN queries /\ SubmitContinues(q))

\* what getDocumentFileInfo may answer: info with a fileUrl, info without
\* one, an error
FileInfoOutcomes == {"url", "nourl", "error"}

\* handleOpenPdf, from View Sources (rendered when hasSources && !isStreaming,
\* disabled while loadingPdf), up to await getDocumentFileInfo(documentId)
HandleOpenPdf ==
    /\ rag.mounted
    /\ rag.hasSources
    /\ ~rag.isStreaming
    /\ ~rag.loadingPdf
    /\ rag' = IF rag.pdfFilePath # 0
              THEN [rag EXCEPT !.isPdfOpen = TRUE]
              ELSE [rag EXCEPT !.loadingPdf = TRUE, !.pdfFor = selectedDocumentId]
    /\ UNCHANGED <<selectedDocumentId, loading, queries, outsidePage>>

\* handleOpenPdf from the await on: setPdfInfo, then the path and the viewer
\* if the info has a fileUrl; finally setLoadingPdf(false)
FileInfoSettles(outcome) ==
    /\ rag.mounted
    /\ rag.loadingPdf
    /\ rag' = [rag EXCEPT !.loadingPdf = FALSE,
                          !.pdfFor = 0,
                          !.pdfInfo = IF outcome = "error" THEN @ ELSE rag.pdfFor,
                          !.pdfFilePath = IF outcome = "url" THEN rag.pdfFor ELSE @,
                          !.isPdfOpen = IF outcome = "url" THEN TRUE ELSE @]
    /\ UNCHANGED <<selectedDocumentId, loading, queries, outsidePage>>

\* onClose of the PDFViewer, which is rendered when isPdfOpen && pdfFilePath
ClosePdf ==
    /\ rag.mounted
    /\ rag.isPdfOpen
    /\ rag.pdfFilePath # 0
    /\ rag' = [rag EXCEPT !.isPdfOpen = FALSE]
    /\ UNCHANGED <<selectedDocumentId, loading, queries, outsidePage>>

\* one RAGQuery from its mount on, with View Sources
NextRag ==
    \/ \E ok \in BOOLEAN : FetchDocumentsSettles(ok)
    \/ \E docId \in DocumentIds : HandleDocumentSelect(docId)
    \/ \E query \in QueryTexts : HandleSubmit(query)
    \/ \E q \in DOMAIN queries : StreamChunk(q)
    \/ \E q \in DOMAIN queries : StreamSources(q)
    \/ \E q \in DOMAIN queries : StreamEnds(q)
    \/ \E q \in DOMAIN queries : StreamFails(q)
    \/ \E q \in DOMAIN queries : SubmitContinues(q)
    \/ HandleOpenPdf
    \/ \E outcome \in FileInfoOutcomes : FileInfoSettles(outcome)
    \/ ClosePdf

SpecRag == InitPage /\ [][NextRag]_vars

-----------------------------------------------------------------------------
(* PDFViewer *)

Citations == [text : {<<"Foo">>}, page : 0..MaxPage]

\* (mutant) every page taken as 0-based
NormalizeShift(page) == page + 1

\* source.page === 0 ? 1 : source.page
NormalizePage(page) == IF page = 0 THEN 1 ELSE page

\* normalizedSources
NormalizedSources(srcs) ==
    [i \in DOMAIN srcs |-> [srcs[i] EXCEPT !.page = NormalizePage(@)]]

\* pagesWithSources: the pages that have a citation
PagesWithSources(srcs) ==
    {NormalizedSources(srcs)[i].page : i \in DOMAIN srcs}

InitViewer ==
    /\ viewerSources \in SeqsUpTo(Citations, MaxCitations)
    /\ currentPage = 1
    /\ viewerStep = "pending"
    /\ kind = "query"
    /\ sent = <<>>
    /\ wire = <<>>
    /\ pc = "idle"
    /\ FetchDone
    /\ AuthIdle
    /\ PageIdle
    /\ decoderPending = <<>>
    /\ buffer = <<>>
    /\ inSourcesSection = FALSE
    /\ sources = <<>>
    /\ currentSourceText = <<>>
    /\ responseMessage = <<>>
    /\ calls = <<>>
    /\ abandoned = FALSE
    /\ lateCall = FALSE
    /\ carried = FALSE

\* the effect on normalizedSources: the page of the first citation, or 1
SourcesEffect ==
    /\ viewerStep = "pending"
    /\ \E normalizedSources \in {NormalizedSources(viewerSources)} :
           currentPage' = IF Len(normalizedSources) > 0
                          THEN normalizedSources[1].page
                          ELSE 1
    /\ viewerStep' = "shown"
    /\ UNCHANGED <<viewerSources, streamVars, fetchVars, authVars, pageVars>>

\* the parent renders the viewer with another sources array
SourcesChange(srcs) ==
    /\ viewerStep # "pending"
    /\ viewerSources' = srcs
    /\ viewerStep' = "pending"
    /\ UNCHANGED <<currentPage, streamVars, fetchVars, authVars, pageVars>>

\* handlePageChange(pageNumber), from a button of pagesWithSources
HandlePageChange(pageNumber) ==
    /\ viewerStep # "pending"
    /\ pageNumber \in PagesWithSources(viewerSources)
    /\ currentPage' = pageNumber
    /\ viewerStep' = "navigated"
    /\ UNCHANGED <<viewerSources, streamVars, fetchVars, authVars, pageVars>>

NextViewer ==
    \/ SourcesEffect
    \/ \E srcs \in SeqsUpTo(Citations, MaxCitations) : SourcesChange(srcs)
    \/ \E pageNumber \in 0..(MaxPage + 1) : HandlePageChange(pageNumber)

SpecViewer == InitViewer /\ [][NextViewer]_vars

-----------------------------------------------------------------------------
(* ChatPage *)

outsideChat == <<selectedDocumentId, loading, rag, queries, streamVars, fetchVars,
                 authVars, viewerVars>>

\* getChatMessages(sessionId) once the server has stored n exchanges
RECURSIVE ServerLog(_, _)
ServerLog(sessionId, n) ==
    IF n = 0 THEN ServerMessages(sessionId)
    ELSE ServerLog(sessionId, n - 1)
             \o <<Message(sessionId, "user", "server", <<"Bar">>),
                  Message(sessionId, "assistant", "server", AnswerText)>>

LoadsUnderWay == chatPage.loads[1] + chatPage.loads[2]

\* the fetchMessages effect up to await getChatMessages(selectedSessionId)
StartLoad(page, sessionId) == [page EXCEPT !.loads[sessionId] = @ + 1]

\* fetchSessions after the await: the first session is selected if none is,
\* which runs the fetchMessages effect
FetchSessionsSettles(ok) ==
    /\ chatPage.loading
    /\ chatPage' = IF ok /\ chatPage.selectedSessionId = 0
                   THEN StartLoad([chatPage EXCEPT !.loading = FALSE,
                                                   !.listed = TRUE,
                                                   !.selectedSessionId = 1], 1)
                   ELSE [chatPage EXCEPT !.loading = FALSE]
    /\ UNCHANGED outsideChat

\* onClick of a session of the list: setSelectedSessionId(session.id); the
\* fetchMessages effect runs when the id has changed
SelectSession(sessionId) ==
    /\ ~chatPage.loading
    /\ chatPage.listed
    /\ sessionId # chatPage.selectedSessionId
    /\ LoadsUnderWay < MaxLoads
    /\ chatPage' = StartLoad([chatPage EXCEPT !.selectedSessionId = sessionId], sessionId)
    /\ UNCHANGED outsideChat

\* fetchMessages after the await: setMessages(data), or the catch
LoadSettles(sessionId, ok) ==
    /\ chatPage.loads[sessionId] > 0
    /\ chatPage' = [chatPage EXCEPT
                        !.loads[sessionId] = @ - 1,
                        !.messages = IF ok THEN ServerLog(sessionId, chatPage.stored[sessionId])
                                     ELSE @]
    /\ UNCHANGED outsideChat

\* handleSendMessage up to await sendChatMessage(...); the form is disabled
\* while isSending
HandleSendMessage ==
    /\ chatPage.selectedSessionId # 0
    /\ ~chatPage.isSending
    /\ chatPage.sends < MaxSends
    /\ chatPage' = [chatPage EXCEPT
                        !.messages = Append(@, Message(chatPage.selectedSessionId,
                                                       "user", "user", <<"Bar">>)),
                        !.isSending = TRUE,
                        !.sends = @ + 1,
                        !.send = [state |-> "streaming",
                                  sessionId |-> chatPage.selectedSessionId,
                                  messageStarted |-> FALSE, deltas |-> 0]]
    /\ UNCHANGED outsideChat

\* sendChatMessage calls the callback with a read that is one payload
ChatDelta(p) ==
    /\ chatPage.send.state = "streaming"
    /\ chatPage.send.deltas < MaxContent
    /\ \E st \in {OnDelta([messageStarted |-> chatPage.send.messageStarted,
                            messages |-> chatPage.messages],
                           ChatParse(ChatText(p)), chatPage.send.sessionId)} :
           chatPage' = [chatPage EXCEPT !.messages = st.messages,
                                        !.send.messageStarted = st.messageStarted,
                                        !.send.deltas = @ + 1]
    /\ UNCHANGED outsideChat

\* sendChatMessage returns; handleSendMessage goes on to
\* await getChatMessages(selectedSessionId), the id being that of the send
ChatStreamEnds ==
    /\ chatPage.send.state = "streaming"
    /\ chatPage' = [chatPage EXCEPT !.send.state = "reloading",
                                    !.stored[chatPage.send.sessionId] = @ + 1]
    /\ UNCHANGED outsideChat

\* the reload answers: setMessages(updatedMessages), or its catch; finally
ReloadSettles(ok) ==
    /\ chatPage.send.state = "reloading"
    /\ chatPage' = [chatPage EXCEPT
                        !.messages = IF ok THEN ServerLog(chatPage.send.sessionId,
                                                          chatPage.stored[chatPage.send.sessionId])
                                     ELSE @,
                        !.isSending = FALSE,
                        !.send = NoSend]
    /\ UNCHANGED outsideChat

\* sendChatMessage rejects: the catch appends its error message; finally
ChatStreamFails ==
    /\ chatPage.send.state = "streaming"
    /\ chatPage' = [chatPage EXCEPT
                        !.messages = Append(@, Message(chatPage.send.sessionId, "assistant",
                                                       "error", <<"Sorry">>)),
                        !.isSending = FALSE,
                        !.send = NoSend]
    /\ UNCHANGED outsideChat

NextChatPage ==
    \/ \E ok \in BOOLEAN : FetchSessionsSettles(ok)
    \/ \E sessionId \in SessionIds : SelectSession(sessionId)
    \/ \E sessionId \in SessionIds : \E ok \in BOOLEAN : LoadSettles(sessionId, ok)
    \/ HandleSendMessage
    \/ \E p \in ChatPayloads : ChatDelta(p)
    \/ ChatStreamEnds
    \/ \E ok \in BOOLEAN : ReloadSettles(ok)
    \/ ChatStreamFails

SpecChatPage == InitPage /\ [][NextChatPage]_vars

-----------------------------------------------------------------------------
(* What the server sent, against what the client did *)

IsQuery == kind = "query"

\* the characters the server wrote into the body
BodyText == IF IsQuery THEN QueryBody(sent) ELSE ChatBody(sent)

\* bytes of the body that reads have returned
Consumed == Len(Utf8Encode(BodyText)) - Len(wire)

\* the payloads whose line, newline included, has been read
Delivered ==
    SubSeq(sent, 1, Len(SelectSeq(sent, LAMBDA p : ~Unterminated(p)))
                        - Cardinality({i \in DOMAIN wire : wire[i] = Newline}))

IsSentinelPayload(p) == p.type = "chunk" /\ Includes(p.text, Sentinel)

CallsOf(cb) == SelectSeq(calls, LAMBDA c : c.cb = cb)

StreamChunkTexts ==
    LET cs == CallsOf("onStreamChunk") IN [i \in DOMAIN cs |-> cs[i].text]

\* the chunk payloads delivered ahead of the first sentinel
BeforeSentinel ==
    LET hits == {i \in DOMAIN Delivered : IsSentinelPayload(Delivered[i])}
        stop == IF hits = {} THEN Len(Delivered) + 1
                ELSE CHOOSE i \in hits : \A j \in hits : i <= j
        head == SelectSeq(SubSeq(Delivered, 1, stop - 1), LAMBDA p : p.type = "chunk")
    IN  [i \in DOMAIN head |-> head[i].text]

\* the chunk texts delivered after the first sentinel, sentinels left out
SourceChunks ==
    LET hits == {i \in DOMAIN Delivered : IsSentinelPayload(Delivered[i])}
        start == IF hits = {} THEN Len(Delivered) + 1
                 ELSE CHOOSE i \in hits : \A j \in hits : i <= j
        rest == SelectSeq(SubSeq(Delivered, start + 1, Len(Delivered)),
                          LAMBDA p : p.type = "chunk" /\ ~IsSentinelPayload(p))
    IN  [i \in DOMAIN rest |-> rest[i].text]

MarkerAt == {i \in DOMAIN SourceChunks : MatchesMarker(SourceChunks[i])}
NthMarker(k) == CHOOSE i \in MarkerAt : Cardinality({j \in MarkerAt : j < i}) = k - 1

\* the k-th record that a later marker has closed: its fragments, its label
ClosedFragments(k) == Flatten(SubSeq(SourceChunks, NthMarker(k), NthMarker(k + 1) - 1))
ClosedCount == IF MarkerAt = {} THEN 0 ELSE Cardinality(MarkerAt) - 1

-----------------------------------------------------------------------------
(* Claims *)

\* C1: when the stream has ended, a source record still pending in
\* currentSourceText has been finalized and is the last record of the list
\* handed to onSourcesReceived.
C1_PendingSourceDelivered ==
    (IsQuery /\ pc = "resolved" /\ currentSourceText # <<>>) =>
        \E i \in DOMAIN calls :
            /\ calls[i].cb = "onSourcesReceived"
            /\ calls[i].sources # <<>>
            /\ calls[i].sources[Len(calls[i].sources)] = SourceRecord(currentSourceText)

\* C2: onSourcesReceived is invoked at most once per stream.
C2_SourcesDeliveredAtMostOnce == Len(CallsOf("onSourcesReceived")) <= 1

\* C3: once the caller has given the stream up, no callback runs for it.
C3_NoCallbackAfterAbandon == ~lateCall

\* C4: the onStreamChunk calls are exactly the texts of the chunk payloads
\* delivered ahead of the sentinel, one call per payload, in arrival order,
\* whatever the reads were.
C4_ChunksForwardedInOrder == IsQuery => StreamChunkTexts = BeforeSentinel

C4_Witness ==
    /\ IsQuery
    /\ pc = "resolved"
    /\ Len(StreamChunkTexts) >= 3
    /\ StreamChunkTexts[1] # StreamChunkTexts[2]
    /\ inSourcesSection

\* C5: each record closed by a later marker is in sources, in marker order,
\* with the text of its fragments less the label, trimmed, and the page of
\* its own label.
C5_ClosedRecordsPushed ==
    IsQuery =>
        /\ Len(sources) >= ClosedCount
        /\ \A k \in 1..ClosedCount :
               LET raw == ClosedFragments(k) IN
               sources[Len(sources) - ClosedCount + k]
                   = [text |-> Trim(SubSeq(raw, 4, Len(raw))), page |-> PageDigits(raw[2])]

C5_Witness ==
    /\ IsQuery
    /\ ClosedCount >= 1
    /\ \E i \in DOMAIN sources :
           /\ sources[i].page = 2
           /\ \E j \in DOMAIN sources[i].text : sources[i].text[j] = "Page 7"

\* C6: no onStreamChunk call follows an onSourcesReceived call.
C6_NoChunkAfterSources ==
    \A i, j \in DOMAIN calls :
        (i < j /\ calls[i].cb = "onSourcesReceived") => calls[j].cb # "onStreamChunk"

\* a done payload delivered the sources and a chunk line came after it
C6_Witness ==
    /\ IsQuery
    /\ CallsOf("onSourcesReceived") # <<>>
    /\ \E i \in DOMAIN Delivered :
           /\ Delivered[i].type = "done"
           /\ i < Len(Delivered)
           /\ Delivered[Len(Delivered)] = Chunk(AnswerText)

\* C7: a stream in which no chunk contains the sentinel never has
\* onSourcesReceived invoked.
C7_NoSentinelNoSources ==
    (\A i \in DOMAIN sent : ~IsSentinelPayload(sent[i])) =>
        CallsOf("onSourcesReceived") = <<>>

C7_Witness ==
    /\ IsQuery
    /\ pc = "resolved"
    /\ \A i \in DOMAIN sent : ~IsSentinelPayload(sent[i])
    /\ \E i, j, k \in DOMAIN sent :
           /\ i < j /\ j < k
           /\ MatchesMarker(sent[i].text)
           /\ MatchesMarker(sent[j].text)
           /\ sent[k].type = "done"

\* C8: a chunk that contains the sentinel is not passed to onStreamChunk
\* and leaves the parser in the sources section.
C8_SentinelSuppressed ==
    IsQuery =>
        /\ \A i \in DOMAIN calls :
               calls[i].cb = "onStreamChunk" => ~Includes(calls[i].text, Sentinel)
        /\ (\E i \in DOMAIN Delivered : IsSentinelPayload(Delivered[i])) => inSourcesSection

C8_Witness ==
    /\ IsQuery
    /\ Delivered # <<>>
    /\ IsSentinelPayload(Delivered[Len(Delivered)])
    /\ inSourcesSection
    /\ Len(calls) = Len(Delivered) - 1

\* C9: while queryDocument reads, its state and its callbacks are those of
\* interpreting, once each and in order, the lines whose newline has been
\* read; a line still without its newline has changed nothing.
C9_LinesInterpretedOnce ==
    (IsQuery /\ pc = "reading") =>
        ParserState =
            ProcessLines([inSourcesSection |-> FALSE, sources |-> <<>>,
                          currentSourceText |-> <<>>, calls |-> <<>>],
                         [i \in DOMAIN Delivered |-> LineText(Delivered[i])])

\* a line cut inside a character was completed by the latest read
C9_Witness ==
    /\ IsQuery
    /\ carried
    /\ buffer = <<>>
    /\ calls # <<>>
    /\ calls[Len(calls)] = OnStreamChunk(AnswerText)

\* C10: the decoded text is the text the server wrote, as far as its bytes
\* have been read: no replacement character, each character once; the chat
\* consumer receives exactly that text.
C10_DecodedOnce ==
    /\ \A i \in DOMAIN responseMessage : responseMessage[i] # Replacement
    /\ Len(responseMessage) <= Len(BodyText)
    /\ responseMessage = SubSeq(BodyText, 1, Len(responseMessage))
    /\ Len(Utf8Encode(responseMessage)) + Len(decoderPending) = Consumed
    /\ ~IsQuery => Flatten([i \in DOMAIN calls |-> calls[i].text]) = responseMessage

\* a read ended between the two bytes of U+00E9 and the next one completed it
C10_Witness ==
    /\ ~IsQuery
    /\ carried
    /\ calls # <<>>
    /\ calls[Len(calls)].text # <<>>
    /\ Head(calls[Len(calls)].text) = EAcute

\* C13: within one queryDocument invocation inSourcesSection, once TRUE,
\* stays TRUE through every later read, whatever lines it carries.
C13_PhaseMonotonic == [][inSourcesSection => inSourcesSection']_vars

\* after the sentinel a chunk, a done payload and a second sentinel came
C13_Witness ==
    /\ IsQuery
    /\ inSourcesSection
    /\ \E i, j, k \in DOMAIN Delivered :
           /\ i < j /\ j < k
           /\ IsSentinelPayload(Delivered[i])
           /\ Delivered[j].type = "done"
           /\ IsSentinelPayload(Delivered[k])

\* done payloads processed, and the end of the stream once it was reported
TerminalEvents ==
    Cardinality({i \in DOMAIN Delivered : Delivered[i].type = "done"})
        + (IF pc = "resolved" THEN 1 ELSE 0)

\* C14: onSourcesReceived is invoked only at a done payload or at the end of
\* the stream: there are never more invocations than such events, so pushing
\* a record invokes nothing.
C14_SourcesOnlyAtTerminalEvent ==
    IsQuery => Len(CallsOf("onSourcesReceived")) <= TerminalEvents

\* records were pushed and the stream has had no terminal event yet
C14_Witness ==
    /\ IsQuery
    /\ pc = "reading"
    /\ Len(sources) >= 1
    /\ TerminalEvents = 0
    /\ CallsOf("onSourcesReceived") = <<>>

\* C19: every element of sources is a record that a marker began and a later
\* marker closed; text of the sources section ahead of the first marker is
\* never pushed.
C19_OnlyMarkerRecords == IsQuery => Len(sources) <= ClosedCount

FreshState ==
    [inSourcesSection |-> FALSE, sources |-> <<>>, currentSourceText |-> <<>>,
     calls |-> <<>>]

FirstDone ==
    CHOOSE i \in DOMAIN Delivered :
        /\ Delivered[i].type = "done"
        /\ \A j \in DOMAIN Delivered : Delivered[j].type = "done" => i <= j

\* C20: after a done payload the lines that follow cause no onStreamChunk
\* call and leave sources and currentSourceText as the done payload found
\* them.
C20_DoneIsTerminal ==
    (IsQuery /\ \E i \in DOMAIN Delivered : Delivered[i].type = "done") =>
        LET st == ProcessLines(FreshState,
                               [i \in 1..FirstDone |-> LineText(Delivered[i])])
        IN  /\ CallsOf("onStreamChunk") = SelectSeq(st.calls, LAMBDA c : c.cb = "onStreamChunk")
            /\ sources = st.sources
            /\ currentSourceText = st.currentSourceText

WellFormed(p) == p.type \in {"chunk", "done"}

\* C11: a line without the "data: " prefix, with a payload that is no JSON,
\* or with neither chunk nor done is skipped: queryDocument does not reject,
\* and its state and callbacks are those of the well-formed lines alone.
C11_MalformedSkipped ==
    (IsQuery /\ pc = "reading") =>
        /\ thrown = NoError
        /\ LET good == SelectSeq(Delivered, WellFormed) IN
           ParserState =
               ProcessLines(FreshState, [i \in DOMAIN good |-> LineText(good[i])])

\* a source label was taken up right after a line that is no payload
C11_Witness ==
    /\ IsQuery
    /\ pc = "reading"
    /\ Len(Delivered) = 3
    /\ IsSentinelPayload(Delivered[1])
    /\ ~WellFormed(Delivered[2])
    /\ currentSourceText = SourceOne

\* C12: a response that is not ok or has no body rejects queryDocument
\* before any callback; a failed read rejects it; a rejected queryDocument
\* has not resolved and a resolved one threw nothing.
C12_RejectsOnFailure ==
    /\ (pc # "fetching" /\ ~response.ok) =>
           (pc = "rejected" /\ thrown = HttpError /\ calls = <<>>)
    /\ (pc # "fetching" /\ response.ok /\ ~response.body) =>
           (pc = "rejected" /\ thrown = BodyNull /\ calls = <<>>)
    /\ thrown # NoError <=> pc = "rejected"
    /\ pc = "resolved" => (response.ok /\ response.body)

\* a response that is not ok, its body holding lines, was refused
C12_Witness ==
    /\ pc = "rejected"
    /\ ~response.ok
    /\ response.body
    /\ Len(sent) >= 2
    /\ wire # <<>>

\* the token is missing, cannot be decoded, or its exp is not after the time
Unusable(token, time) ==
    \/ ~token.stored
    \/ ~token.decodable
    \/ (token.exp > 0 /\ token.exp <= time)

\* C18: when initAuth found the stored token missing, undecodable or
\* expired, it leaves user null, isLoading false and localStorage without
\* authToken and userData, and ProtectedRoute redirects to /login;
\* ProtectedRoute renders its children only with isLoading false and a user.
C18_AuthCheck ==
    /\ (tokenFound.at > 0 /\ Unusable(tokenFound.token, tokenFound.at)) =>
           /\ user = "null"
           /\ ~isLoading
           /\ localStorage = Cleared
           /\ ProtectedRoute = "Navigate to /login"
    /\ ProtectedRoute = "children" => (~isLoading /\ user # "null")

\* initAuth found a token at the second of its exp, beside a stored user
C18_Witness ==
    /\ authStep = "ready"
    /\ tokenFound.token.decodable
    /\ tokenFound.token.exp = tokenFound.at
    /\ now > 1
    /\ localStorage = Cleared
    /\ ProtectedRoute = "Navigate to /login"

\* C16: the viewer shows a citation of page 0 on page 1 and any other on its
\* own page; once its effect has run, currentPage is that page of the first
\* citation, or 1 without citations; currentPage is never 0.
C16_PageNormalized ==
    /\ \A i \in DOMAIN viewerSources :
           /\ NormalizedSources(viewerSources)[i].text = viewerSources[i].text
           /\ NormalizedSources(viewerSources)[i].page =
                  IF viewerSources[i].page = 0 THEN 1 ELSE viewerSources[i].page
    /\ viewerStep = "shown" =>
           currentPage = IF viewerSources = <<>> THEN 1
                         ELSE IF viewerSources[1].page = 0 THEN 1
                         ELSE viewerSources[1].page
    /\ currentPage # 0

\* citations of page 0 and of page 2, shown from page 2 on
C16_Witness ==
    /\ viewerStep = "shown"
    /\ Len(viewerSources) >= 2
    /\ viewerSources[1].page = 2
    /\ viewerSources[2].page = 0
    /\ currentPage = 2

ReadsInProgress == {q \in DOMAIN queries : queries[q].state = "reading"}

\* C15: the document-query surface never has two queryDocument reads in
\* progress, whatever submits, selections and list refreshes came before.
C15_OneReadPerSurface == Cardinality(ReadsInProgress) <= 1

\* while the queryDocument of the mounted RAGQuery reads, the form is disabled
C17_BusyWhileReading ==
    \A q \in DOMAIN queries :
        (queries[q].state = "reading" /\ Own(q)) => (rag.loading /\ rag.isStreaming)

\* a queryDocument leaves "reading" only when the transport ends or fails
C17_SettlesOnlyOnTransport ==
    \A q \in DOMAIN queries :
        (queries[q].state = "reading" /\ queries'[q].state # "reading") =>
            (StreamEnds(q) \/ StreamFails(q))

\* the queryDocument has settled and handleSubmit has yet to go on
Awaited(q) ==
    /\ q \in DOMAIN queries
    /\ queries[q].state # "reading"
    /\ ~queries[q].continued
    /\ Own(q)

\* the RAGQuery that submitted q is idle again, or gone
Quiet(q) ==
    /\ q \in DOMAIN queries
    /\ ~Own(q) \/ (~rag.loading /\ ~rag.isStreaming)

\* C17: nothing but the transport settles queryDocument, and until it does
\* the RAGQuery stays in loading and isStreaming with its form disabled;
\* once the transport has reported the end or an error, RAGQuery comes to
\* loading = false and isStreaming = false.
C17_NoTimeout ==
    /\ []C17_BusyWhileReading
    /\ [][C17_SettlesOnlyOnTransport]_vars
    /\ \A q \in 1..MaxQueries : Awaited(q) ~> Quiet(q)

\* after streamed text the transport failed and the form is enabled again
C17_Witness ==
    \E q \in DOMAIN queries :
        /\ queries[q].state = "rejected"
        /\ queries[q].continued
        /\ Own(q)
        /\ rag.answer # <<>>
        /\ ~rag.loading
        /\ ~rag.isStreaming

\* the chunks of the sources section that came ahead of its first label
Preamble ==
    LET stop == IF MarkerAt = {} THEN Len(SourceChunks) + 1 ELSE NthMarker(1)
    IN  Flatten(SubSeq(SourceChunks, 1, stop - 1))

\* C21: a record finalized from a text without "Page <digits>" has page 0
\* and parsing goes on: the records of the labels that follow are pushed
\* after it, and every page in sources is an integer >= 0.
C21_PageDefaultsToZero ==
    IsQuery =>
        /\ \A i \in DOMAIN sources : sources[i].page \in Nat
        /\ (MarkerAt # {} /\ Preamble # <<>>) =>
               /\ Len(sources) = ClosedCount + 1
               /\ sources[1].text = Trim(Preamble)
               /\ (\A i \in DOMAIN Preamble : Preamble[i] \notin PageRefs)
                      => sources[1].page = 0

C21_Witness ==
    /\ IsQuery
    /\ pc = "resolved"
    /\ sources = <<[text |-> AnswerText, page |-> 0], [text |-> <<"Foo">>, page |-> 2]>>
    /\ currentSourceText = SourceOne

\* the chunk texts delivered after the first sentinel, later sentinels included
SectionChunks ==
    LET hits == {i \in DOMAIN Delivered : IsSentinelPayload(Delivered[i])}
        start == IF hits = {} THEN Len(Delivered) + 1
                 ELSE CHOOSE i \in hits : \A j \in hits : i <= j
        rest == SelectSeq(SubSeq(Delivered, start + 1, Len(Delivered)),
                          LAMBDA p : p.type = "chunk")
    IN  [i \in DOMAIN rest |-> rest[i].text]

\* what a list of section chunks leaves behind when each chunk that begins
\* with a label starts a record and every other chunk is appended
Labels(chs) == {i \in DOMAIN chs : MatchesMarker(chs[i])}
FirstLabel(chs) == CHOOSE i \in Labels(chs) : \A j \in Labels(chs) : i <= j
LastLabel(chs) == CHOOSE i \in Labels(chs) : \A j \in Labels(chs) : i >= j

PendingOf(chs) ==
    IF Labels(chs) = {} THEN Flatten(chs)
    ELSE Flatten(SubSeq(chs, LastLabel(chs), Len(chs)))

PushedOf(chs) ==
    IF Labels(chs) = {} THEN 0
    ELSE Cardinality(Labels(chs)) - 1
             + (IF Flatten(SubSeq(chs, 1, FirstLabel(chs) - 1)) # <<>> THEN 1 ELSE 0)

\* C22 (as amended): in the sources section a chunk without the sentinel
\* starts a record exactly when it begins with the label; any other such
\* chunk, one with a label in the middle of its text included, is appended
\* to currentSourceText as it stands and leaves sources alone; and no chunk
\* of the section reaches onStreamChunk.
C22_LabelAtStartOnly ==
    IsQuery =>
        /\ currentSourceText = PendingOf(SourceChunks)
        /\ Len(sources) = PushedOf(SourceChunks)
        /\ StreamChunkTexts = BeforeSentinel

\* C22 as stated: every chunk of the section that does not begin with the
\* label is appended, a chunk with the sentinel among them.
C22_EveryOtherChunkAppended ==
    IsQuery =>
        /\ currentSourceText = PendingOf(SectionChunks)
        /\ Len(sources) = PushedOf(SectionChunks)
        /\ StreamChunkTexts = BeforeSentinel

C22_Witness ==
    /\ IsQuery
    /\ inSourcesSection
    /\ sources = <<[text |-> <<"Foo">> \o MidMarker, page |-> 2]>>
    /\ currentSourceText = SourceOne
    /\ calls = <<>>

\* C24: a chunk that contains the sentinel is dropped whole, in the answer
\* phase and in the sources section alike: nothing of its text is forwarded
\* to onStreamChunk, collected in currentSourceText or pushed in a record.
C24_SentinelChunkDropped ==
    IsQuery =>
        \A i \in DOMAIN Wrapped :
            /\ \A c \in DOMAIN calls : ~Includes(calls[c].text, <<Wrapped[i]>>)
            /\ ~Includes(currentSourceText, <<Wrapped[i]>>)
            /\ \A k \in DOMAIN sources : ~Includes(sources[k].text, <<Wrapped[i]>>)

C24_Witness ==
    /\ IsQuery
    /\ Delivered = <<Chunk(Wrapped), Chunk(SourceOne), Chunk(Wrapped)>>
    /\ wire = <<>>
    /\ inSourcesSection
    /\ currentSourceText = SourceOne
    /\ calls = <<>>

\* C25: when the body ends with a data line that has no newline, chunk or
\* done, queryDocument resolves with that line still in buffer and with the
\* state and the callbacks of the lines ahead of it: the line was never
\* interpreted.
C25_RemainderNotInterpreted ==
    (IsQuery /\ pc = "resolved" /\ sent # <<>> /\ Unterminated(sent[Len(sent)])) =>
        LET ahead == SubSeq(sent, 1, Len(sent) - 1) IN
        /\ buffer = LineText(sent[Len(sent)])
        /\ ParserState =
               DeliverSources(ProcessLines(FreshState,
                                           [i \in DOMAIN ahead |-> LineText(ahead[i])]))

C25_Witness ==
    /\ IsQuery
    /\ pc = "resolved"
    /\ sent = <<Chunk(AnswerText), TailChunk(AnswerText)>>
    /\ buffer = LineText(TailChunk(AnswerText))
    /\ calls = <<OnStreamChunk(AnswerText)>>

\* handleSubmit goes on past the await of a queryDocument that rejected, in
\* the RAGQuery still mounted
FailureHandled(q) ==
    /\ queries[q].state = "rejected"
    /\ ~queries[q].continued
    /\ queries'[q].continued
    /\ Own(q)

\* C23: when queryDocument rejects during a submit, RAGQuery ends with
\* loading = false and isStreaming = false, toast.error has been called
\* once for that submit, no queryDocument is started in its place, the
\* answer streamed so far stays as it was, and the form is enabled again.
C23_FailureEndsSubmit ==
    /\ [](\A q \in DOMAIN queries : queries[q].toasts <= 1)
    /\ [][\A q \in DOMAIN queries :
             FailureHandled(q) =>
                 /\ ~rag'.loading
                 /\ ~rag'.isStreaming
                 /\ rag'.answer = rag.answer
                 /\ queries'[q].toasts = 1
                 /\ Len(queries') = Len(queries)
                 /\ rag'.mounted]_vars

\* the submit failed after an answer and the sources had been shown
C23_Witness ==
    /\ Len(queries) = 1
    /\ queries[1].state = "rejected"
    /\ queries[1].toasts = 1
    /\ Own(1)
    /\ rag.answer = AnswerText
    /\ rag.hasSources
    /\ ~rag.loading
    /\ ~rag.isStreaming

\* C26: what the mounted RAGQuery shows is of the document it is given: the
\* answer and the sources come from a query on the selected document, and
\* the file in the viewer is the selected document's.
C26_ResultsOfCurrentDocument ==
    rag.mounted =>
        /\ rag.answerOf # 0 => queries[rag.answerOf].documentId = selectedDocumentId
        /\ rag.sourcesOf # 0 => queries[rag.sourcesOf].documentId = selectedDocumentId
        /\ (rag.isPdfOpen /\ rag.pdfFilePath # 0) => rag.pdfFilePath = selectedDocumentId

\* the latest queryDocument started by the mounted RAGQuery
LatestQuery ==
    LET own == {q \in DOMAIN queries : queries[q].instance = rag.instance} IN
    IF own = {} THEN 0 ELSE CHOOSE q \in own : \A r \in own : q >= r

\* answer and sources are of the latest submit, or empty
C27_ShownOfLatestSubmit ==
    /\ rag.hasSources <=> (rag.sources # <<>>)
    /\ rag.mounted =>
           /\ rag.answerOf \in {0, LatestQuery}
           /\ rag.sourcesOf \in {0, LatestQuery}
           /\ (rag.answerOf = 0) <=> (rag.answer = <<>>)
           /\ (rag.sourcesOf = 0) <=> (rag.sources = <<>>)
    /\ \A q \in DOMAIN queries :
           \E i \in DOMAIN queries[q].query : queries[q].query[i] \notin Whitespace

\* a submit that starts a queryDocument leaves the five fields reset
C27_SubmitResets ==
    Len(queries') > Len(queries) =>
        /\ rag'.answer = <<>>
        /\ rag'.sources = <<>>
        /\ ~rag'.hasSources
        /\ rag'.pdfInfo = 0
        /\ rag'.pdfFilePath = 0
        /\ ~queries'[Len(queries')].sourcesSent

\* C27: hasSources holds exactly when sources is not empty; a submit of a
\* query that is not blank resets answer, sources, hasSources, pdfInfo and
\* pdfFilePath ahead of every callback of its stream, so that the answer and
\* the sources shown are never of different queries; no queryDocument is
\* ever started for a blank or whitespace-only query.
C27_SubmitStartsClean ==
    /\ []C27_ShownOfLatestSubmit
    /\ [][C27_SubmitResets]_vars

\* a second query shows its own answer and sources after the first one had
\* shown sources and its file
C27_Witness ==
    /\ Len(queries) = 2
    /\ queries[1].sourcesSent
    /\ rag.answerOf = 2
    /\ rag.sourcesOf = 2
    /\ rag.hasSources
    /\ rag.pdfFilePath = 0
    /\ rag.isPdfOpen

\* the reads that returned exactly the payload p
WholeReads(p) == {i \in DOMAIN calls : calls[i].text = ChatText(p)}

\* the content reads that follow a role read, in order
CountedReads ==
    SelectSeq([i \in DOMAIN calls |-> i],
              LAMBDA i : /\ i \in WholeReads(ContentDelta)
                         /\ \E j \in WholeReads(RoleDelta) : j < i)

StreamedMessages == SelectSeq(Displayed, LAMBDA m : m.origin = "stream")

\* C30: sendChatMessage hands each read to the callback as it is, nothing
\* buffered (the chunks of the calls are the decoded body so far); what is
\* shown grows only by reads that are exactly one payload: a placeholder
\* per role read, and the text of a content read that follows a role read
\* appended to the last placeholder when that read arrives; any other read,
\* and a content read ahead of every role read, adds nothing; the messages
\* loaded before the send stay as they were and the stream never rejects.
C30_OnlyWholeReadsShown ==
    ~IsQuery =>
        /\ pc \in {"reading", "resolved"}
        /\ Flatten([i \in DOMAIN calls |-> calls[i].text]) = responseMessage
        /\ Len(StreamedMessages) = Cardinality(WholeReads(RoleDelta))
        /\ Flatten([i \in DOMAIN StreamedMessages |-> StreamedMessages[i].content])
               = Flatten([i \in DOMAIN CountedReads |-> AnswerText])
        /\ SubSeq(Displayed, 1, 2)
               = Append(ServerMessages(1), Message(1, "user", "user", <<"Bar">>))

\* of two content payloads after the role payload one came in a read of its
\* own and the other did not
C30_Witness ==
    /\ ~IsQuery
    /\ pc = "resolved"
    /\ sent = <<RoleDelta, ContentDelta, ContentDelta>>
    /\ Len(StreamedMessages) = 1
    /\ StreamedMessages[1].content = AnswerText

\* what a message made by the server or by a catch block holds
Untouched(m) ==
    CASE m.origin = "server" -> \E n \in 0..MaxSends :
                                    \E i \in DOMAIN ServerLog(m.sessionId, n) :
                                        ServerLog(m.sessionId, n)[i] = m
      [] m.origin = "error" -> m.content = <<"Sorry">>
      [] OTHER -> TRUE

\* C28: a content delta is appended to the placeholder of its own send
\* only: the messages that getChatMessages loaded keep the content the
\* server gave them, and what is shown under a placeholder belongs to the
\* session of the send that made it.
C28_DeltaIntoOwnPlaceholder ==
    \A i \in DOMAIN chatPage.messages :
        LET m == chatPage.messages[i] IN
        /\ Untouched(m)
        /\ (m.origin = "stream" /\ m.content # <<>>) =>
               (chatPage.send.state = "streaming" => m.sessionId = chatPage.send.sessionId)

\* no request of ChatPage is under way
ChatSettled ==
    /\ ~chatPage.loading
    /\ LoadsUnderWay = 0
    /\ chatPage.send.state = "none"

\* C29: once every request of ChatPage has settled, the messages shown are
\* of the selected session.
C29_MessagesOfSelectedSession ==
    ChatSettled =>
        \A i \in DOMAIN chatPage.messages :
            chatPage.messages[i].sessionId = chatPage.selectedSessionId

====
